---- MODULE Spec2Model ----
(***************************************************************************)
(* The notebook pandas-data-cleaning-tricks.py as a state machine.         *)
(*                                                                         *)
(* The state is the notebook's namespace: the DataFrames bound to salary,  *)
(* salary_selected, salary_sort, salary_average, salary_merged,            *)
(* unemployment, unemployment_long and attendees, and pc, the next cell    *)
(* ("In[n]" of the source) to run.  Every cell that changes the namespace  *)
(* is one action; cells that only display (head(), tail(), dtypes) change  *)
(* nothing and are skipped.  The three parts of the notebook (sections     *)
(* 1-2, sections 3-4, section 5) read only the tables they load            *)
(* themselves, so a run starts at the first cell of any one of them.       *)
(*                                                                         *)
(* The pandas and numpy calls are modelled by what the library does for    *)
(* the pandas the notebook was written for and runs on (0.23 .. 1.x: with  *)
(* pandas 2 In[32] raises on the text column `name`).                      *)
(*                                                                         *)
(* A DataFrame is a record [dtypes, rows]: dtypes maps a column to its     *)
(* kind ("object" or "float64"), rows is the sequence of rows in frame     *)
(* order, each a record of cells with its row label under "index".         *)
(* A cell is NA (missing, NaN) or Val(x).  Text is a sequence of           *)
(* one-character strings, numbers are naturals/integers, and a mean is an  *)
(* exact fraction (rounding of float64 is not modelled).                   *)
(***************************************************************************)
EXTENDS Integers, Sequences, FiniteSets, TLC

VARIABLES pc, salary, salary_selected, salary_sort, salary_average,
          salary_merged, unemployment, unemployment_long, attendees

vars == <<pc, salary, salary_selected, salary_sort, salary_average,
          salary_merged, unemployment, unemployment_long, attendees>>

\* Bounds of the model: the most rows a loaded file has.
MaxEmployees == 3
MaxCountries == 2
MaxAttendees == 2

(***************************************************************************)
(* Cells, text and numbers                                                 *)
(***************************************************************************)
NA == <<>>
Val(x) == <<x>>
IsNA(c) == c = NA
NotNA(c) == c # NA
Get(c) == c[1]

\* A name that is not bound yet.
Unbound == [dtypes |-> <<>>, rows |-> <<>>]

RangeOf(s) == {s[i] : i \in 1..Len(s)}

Column(df, col) == [i \in 1..Len(df.rows) |-> df.rows[i][col]]

IndexOf(df) == [i \in 1..Len(df.rows) |-> df.rows[i].index]

\* Python's order on str: by code point, character by character.
Ord(c) ==
    CASE c = " " -> 32 [] c = "$" -> 36 [] c = "," -> 44 [] c = "0" -> 48
      [] c = "1" -> 49 [] c = "2" -> 50 [] c = "3" -> 51 [] c = "A" -> 65
      [] c = "B" -> 66 [] c = "n" -> 110 [] c = "x" -> 120

RECURSIVE StrLess(_, _)
StrLess(s, t) ==
    IF t = <<>> THEN FALSE
    ELSE IF s = <<>> THEN TRUE
    ELSE IF Ord(Head(s)) # Ord(Head(t)) THEN Ord(Head(s)) < Ord(Head(t))
    ELSE StrLess(Tail(s), Tail(t))

\* str.replace(pat, repl) with a one-character pat: pandas takes a pattern of
\* length 1 literally (never as a regular expression).
RECURSIVE str_replace(_, _, _)
str_replace(s, pat, repl) ==
    IF s = <<>> THEN <<>>
    ELSE (IF Head(s) = pat THEN repl ELSE <<Head(s)>>)
         \o str_replace(Tail(s), pat, repl)

\* Series.str.replace: elementwise, NaN stays NaN.
Series_str_replace(cell, pat, repl) ==
    IF IsNA(cell) THEN NA ELSE Val(str_replace(Get(cell), pat, repl))

Digits == {"0", "1", "2", "3"}
DigitVal(c) == CASE c = "0" -> 0 [] c = "1" -> 1 [] c = "2" -> 2 [] c = "3" -> 3

\* The strings over the model's alphabet that parse as a number.
IsNumber(s) == Len(s) > 0 /\ \A i \in 1..Len(s) : s[i] \in Digits

RECURSIVE ParseNat(_)
ParseNat(s) ==
    IF s = <<>> THEN 0
    ELSE 10 * ParseNat(SubSeq(s, 1, Len(s) - 1)) + DigitVal(s[Len(s)])

\* pd.to_numeric(errors = 'raise') on one cell of an object column: NaN and
\* the empty string become NaN, a number its value; anything else raises.
Parses(cell) == IsNA(cell) \/ Get(cell) = <<>> \/ IsNumber(Get(cell))

to_numeric(cell) ==
    IF IsNA(cell) \/ Get(cell) = <<>> THEN NA ELSE Val(ParseNat(Get(cell)))

(***************************************************************************)
(* Sorting                                                                 *)
(***************************************************************************)
\* Key cell a sorts strictly before key cell b: NaN is placed last whatever
\* the direction (na_position = 'last').
NumBefore(a, b, ascending) ==
    /\ NotNA(a)
    /\ \/ IsNA(b)
       \/ IF ascending THEN Get(a) < Get(b) ELSE Get(a) > Get(b)

TextBefore(a, b, ascending) ==
    /\ NotNA(a)
    /\ \/ IsNA(b)
       \/ IF ascending THEN StrLess(Get(a), Get(b)) ELSE StrLess(Get(b), Get(a))

Before(kind, a, b, ascending) ==
    IF kind = "object" THEN TextBefore(a, b, ascending)
    ELSE NumBefore(a, b, ascending)

Perms(n) == {p \in [1..n -> 1..n] : \A i, j \in 1..n : i # j => p[i] # p[j]}

Take(df, p) == [df EXCEPT !.rows = [i \in 1..Len(df.rows) |-> df.rows[p[i]]]]

\* A sort_values that ignores `ascending` and always sorts upwards.
sort_values_ascending(df, by, ascending) ==
    {[df EXCEPT !.rows = [i \in 1..Len(df.rows) |-> df.rows[p[i]]]] :
        p \in {q \in Perms(Len(df.rows)) :
                 \A i, j \in 1..Len(df.rows) :
                     i < j => ~Before(df.dtypes[by], df.rows[q[j]][by],
                                      df.rows[q[i]][by], TRUE)}}

\* The orders DataFrame.sort_values(by) with one key may return.  The default
\* kind = 'quicksort' is not a stable sort: rows with equal keys come out in
\* any order.
SortOrders(df, by, ascending) ==
    {p \in Perms(Len(df.rows)) :
        \A i, j \in 1..Len(df.rows) :
            i < j => ~Before(df.dtypes[by], df.rows[p[j]][by],
                             df.rows[p[i]][by], ascending)}

sort_values(df, by, ascending) ==
    {Take(df, p) : p \in SortOrders(df, by, ascending)}

\* reset_index(drop = True): the row labels become 0 .. n-1.
reset_index_drop(df) ==
    [df EXCEPT !.rows = [i \in 1..Len(df.rows) |->
                            [df.rows[i] EXCEPT !.index = i - 1]]]

(***************************************************************************)
(* Sections 1 and 2: the employee earnings report                          *)
(***************************************************************************)
\* read_csv infers a column's kind: a column with rows and no value at all is
\* float64 (all NaN); one that holds text is object.
InferKind(cells) ==
    IF Len(cells) > 0 /\ \A i \in 1..Len(cells) : IsNA(cells[i])
    THEN "float64" ELSE "object"

Departments == {NA, Val(<<"A">>), Val(<<"B">>)}

Earnings == {NA, Val(<<"$", "1", ",", "0">>), Val(<<"$", "3">>), Val(<<"x">>)}

NameOf(i) == Val([k \in 1..i |-> "n"])

\* The frame read_csv returns for a report of n rows with the departments d
\* and the earnings e.
SalaryFile(n, d, e) ==
    [dtypes |-> [c \in {"NAME", "TITLE", "DEPARTMENT_NAME", "TOTAL EARNINGS"} |->
                    CASE c = "DEPARTMENT_NAME" -> InferKind(d)
                      [] c = "TOTAL EARNINGS" -> InferKind(e)
                      [] OTHER -> "object"],
     rows |-> [i \in 1..n |->
                  [c \in {"index", "NAME", "TITLE", "DEPARTMENT_NAME",
                          "TOTAL EARNINGS"} |->
                      CASE c = "index" -> i - 1
                        [] c = "NAME" -> NameOf(i)
                        [] c = "TITLE" -> Val(<<"x">>)
                        [] c = "DEPARTMENT_NAME" -> d[i]
                        [] c = "TOTAL EARNINGS" -> e[i]]]]

\* In[3]: salary = pd.read_csv(..., encoding = 'latin-1')
In3 ==
    /\ pc = "In3"
    /\ \E n \in 0..MaxEmployees :
           \E d \in [1..n -> Departments], e \in [1..n -> Earnings] :
               salary' = SalaryFile(n, d, e)
    /\ pc' = "In9"
    /\ UNCHANGED <<salary_selected, salary_sort, salary_average, salary_merged,
                   unemployment, unemployment_long, attendees>>

\* df[[columns]].copy(): a new frame of the named columns.
select_copy(df, columns) ==
    [dtypes |-> [c \in columns |-> df.dtypes[c]],
     rows |-> [i \in 1..Len(df.rows) |->
                  [c \in columns \cup {"index"} |-> df.rows[i][c]]]]

\* In[9]: salary_selected = salary[['NAME','DEPARTMENT_NAME', 'TOTAL EARNINGS']].copy()
In9 ==
    /\ pc = "In9"
    /\ salary_selected' =
           select_copy(salary, {"NAME", "DEPARTMENT_NAME", "TOTAL EARNINGS"})
    /\ pc' = "In12"
    /\ UNCHANGED <<salary, salary_sort, salary_average, salary_merged,
                   unemployment, unemployment_long, attendees>>

\* Index.str.lower() and Index.str.replace(' ', '_') on the column names.
str_lower(name) ==
    CASE name = "NAME" -> "name"
      [] name = "DEPARTMENT_NAME" -> "department_name"
      [] name = "TOTAL EARNINGS" -> "total earnings"
      [] OTHER -> name

underscore(name) ==
    CASE name = "total earnings" -> "total_earnings"
      [] name = "TOTAL EARNINGS" -> "TOTAL_EARNINGS"
      [] OTHER -> name

\* df.columns = names, or df.rename(columns = ...): `new` maps each column to
\* its new name; the columns are renamed, the cells and the row labels stay.
Old(df, new, name) == CHOOSE c \in DOMAIN df.dtypes : new[c] = name

set_columns(df, new) ==
    LET names == {new[c] : c \in DOMAIN df.dtypes}
    IN  [dtypes |-> [c \in names |-> df.dtypes[Old(df, new, c)]],
         rows |-> [i \in 1..Len(df.rows) |->
                      [c \in names \cup {"index"} |->
                          IF c = "index" THEN df.rows[i].index
                          ELSE df.rows[i][Old(df, new, c)]]]]

\* In[12]: salary_selected.columns = salary_selected.columns.str.lower()
In12 ==
    /\ pc = "In12"
    /\ salary_selected' = set_columns(salary_selected,
               [c \in DOMAIN salary_selected.dtypes |-> str_lower(c)])
    /\ pc' = "In14"
    /\ UNCHANGED <<salary, salary_sort, salary_average, salary_merged,
                   unemployment, unemployment_long, attendees>>

lower_underscore(name) == underscore(str_lower(name))

\* In[14]: salary_selected.columns = salary_selected.columns.str.lower().str.replace(' ', '_')
\* (In[13] computes the renamed columns and drops them.)
In14 ==
    /\ pc = "In14"
    /\ salary_selected' = set_columns(salary_selected,
               [c \in DOMAIN salary_selected.dtypes |-> lower_underscore(c)])
    /\ pc' = "In16"
    /\ UNCHANGED <<salary, salary_sort, salary_average, salary_merged,
                   unemployment, unemployment_long, attendees>>

\* In[16]: salary_sort = salary_selected.sort_values('total_earnings')
In16 ==
    /\ pc = "In16"
    /\ salary_sort' \in sort_values(salary_selected, "total_earnings", TRUE)
    /\ pc' = "In20"
    /\ UNCHANGED <<salary, salary_selected, salary_average, salary_merged,
                   unemployment, unemployment_long, attendees>>

\* df[col] = df[col].str.replace(pat, ''): the column of df is overwritten.
\* The .str accessor exists on an object column only.
assign_str_replace(df, col, pat) ==
    [df EXCEPT !.rows = [i \in 1..Len(df.rows) |->
        [df.rows[i] EXCEPT ![col] = Series_str_replace(df.rows[i][col], pat, <<>>)]]]

\* In[20]: salary_selected['total_earnings'] = salary_selected['total_earnings'].str.replace(',', '')
In20 ==
    /\ pc = "In20"
    /\ IF salary_selected.dtypes["total_earnings"] = "object"
       THEN /\ salary_selected' =
                   assign_str_replace(salary_selected, "total_earnings", ",")
            /\ pc' = "In22"
       ELSE /\ pc' = "AttributeError"
            /\ UNCHANGED salary_selected
    /\ UNCHANGED <<salary, salary_sort, salary_average, salary_merged,
                   unemployment, unemployment_long, attendees>>

\* In[22]: salary_selected['total_earnings'] = salary_selected['total_earnings'].str.replace('$', '')
In22 ==
    /\ pc = "In22"
    /\ salary_selected' = assign_str_replace(salary_selected, "total_earnings", "$")
    /\ pc' = "In24"
    /\ UNCHANGED <<salary, salary_sort, salary_average, salary_merged,
                   unemployment, unemployment_long, attendees>>

\* In[24] as a sort in place (inplace = True) that also binds salary_sort.
In24_inplace ==
    /\ pc = "In24"
    /\ salary_selected' \in sort_values(salary_selected, "total_earnings", TRUE)
    /\ salary_sort' = salary_selected'
    /\ pc' = "In27"
    /\ UNCHANGED <<salary, salary_average, salary_merged,
                   unemployment, unemployment_long, attendees>>

\* In[24]: salary_sort = salary_selected.sort_values('total_earnings')
In24 ==
    /\ pc = "In24"
    /\ salary_sort' \in sort_values(salary_selected, "total_earnings", TRUE)
    /\ pc' = "In27"
    /\ UNCHANGED <<salary, salary_selected, salary_average, salary_merged,
                   unemployment, unemployment_long, attendees>>

\* df[col] = pd.to_numeric(df[col]): the column of df is overwritten and its
\* kind becomes float64.
assign_to_numeric(df, col) ==
    [dtypes |-> [df.dtypes EXCEPT ![col] = "float64"],
     rows |-> [i \in 1..Len(df.rows) |->
                  [df.rows[i] EXCEPT ![col] = to_numeric(df.rows[i][col])]]]

AllParse(df, col) == \A i \in 1..Len(df.rows) : Parses(df.rows[i][col])

\* In[27]: salary_sort['total_earnings'] = pd.to_numeric(salary_sort['total_earnings'])
\* errors = 'raise' is the default: one cell that does not parse raises
\* ValueError and nothing is assigned.
In27 ==
    /\ pc = "In27"
    /\ IF AllParse(salary_sort, "total_earnings")
       THEN /\ salary_sort' = assign_to_numeric(salary_sort, "total_earnings")
            /\ pc' = "In29"
       ELSE /\ pc' = "ValueError"
            /\ UNCHANGED salary_sort
    /\ UNCHANGED <<salary, salary_selected, salary_average, salary_merged,
                   unemployment, unemployment_long, attendees>>

\* In[29]: salary_sort = salary_sort.sort_values('total_earnings')
In29 ==
    /\ pc = "In29"
    /\ salary_sort' \in sort_values(salary_sort, "total_earnings", TRUE)
    /\ pc' = "In30"
    /\ UNCHANGED <<salary, salary_selected, salary_average, salary_merged,
                   unemployment, unemployment_long, attendees>>

\* In[30]: salary_sort = salary_sort.sort_values('total_earnings', ascending = False)
In30 ==
    /\ pc = "In30"
    /\ salary_sort' \in sort_values(salary_sort, "total_earnings", FALSE)
    /\ pc' = "In31"
    /\ UNCHANGED <<salary, salary_selected, salary_average, salary_merged,
                   unemployment, unemployment_long, attendees>>

\* In[31]: salary_sort = salary_sort.reset_index(drop = True)
In31 ==
    /\ pc = "In31"
    /\ salary_sort' = reset_index_drop(salary_sort)
    /\ pc' = "In32"
    /\ UNCHANGED <<salary, salary_selected, salary_average, salary_merged,
                   unemployment, unemployment_long, attendees>>

(***************************************************************************)
(* Grouped mean and merge                                                  *)
(***************************************************************************)
RECURSIVE Sum(_)
Sum(s) == IF s = <<>> THEN 0 ELSE Head(s) + Sum(Tail(s))

RECURSIVE GCD(_, _)
GCD(a, b) == IF b = 0 THEN a ELSE GCD(b, a % b)

\* The arithmetic mean of a non-empty sequence of naturals, as a fraction in
\* lowest terms.
Fraction(num, den) ==
    [num |-> num \div GCD(num, den), den |-> den \div GCD(num, den)]

\* A mean that counts NaN as 0 instead of skipping it.
mean_nan_as_zero(cells) ==
    LET present == SelectSeq(cells, NotNA)
        values == [i \in 1..Len(present) |-> Get(present[i])]
    IN  IF cells = <<>> THEN NA
        ELSE Val(Fraction(Sum(values), Len(cells)))

\* Series.mean() of one group: NaN is skipped, and a group with no value at
\* all has mean NaN.
mean(cells) ==
    LET present == SelectSeq(cells, NotNA)
        values == [i \in 1..Len(present) |-> Get(present[i])]
    IN  IF present = <<>> THEN NA
        ELSE Val(Fraction(Sum(values), Len(values)))

\* The distinct values of a sequence in the order of their first appearance.
RECURSIVE FirstAppearance(_)
FirstAppearance(s) ==
    IF s = <<>> THEN <<>>
    ELSE LET front == FirstAppearance(SubSeq(s, 1, Len(s) - 1))
         IN  IF s[Len(s)] \in RangeOf(front) THEN front
             ELSE Append(front, s[Len(s)])

\* A set of text cells as an ascending sequence.
RECURSIVE Ascending(_)
Ascending(S) ==
    IF S = {} THEN <<>>
    ELSE LET least == CHOOSE a \in S :
                          \A b \in S : ~StrLess(Get(b), Get(a))
         IN  <<least>> \o Ascending(S \ {least})

\* The group keys of groupby(key, sort = False): in the order of their first
\* appearance.
GroupKeys_unsorted(df, key) ==
    SelectSeq(FirstAppearance(Column(df, key)), NotNA)

\* groupby(key): the group keys, NaN left out (dropna), in sorted order
\* (sort = True is the default).
GroupKeys(df, key) == Ascending({c \in RangeOf(Column(df, key)) : NotNA(c)})

GroupCells(df, key, k, col) ==
    LET members == SelectSeq(df.rows, LAMBDA r : r[key] = k)
    IN  [i \in 1..Len(members) |-> members[i][col]]

\* The columns mean() reduces: the numeric ones that are not the key.  A text
\* column (`name`) is dropped from the result.
NumericColumns(df, key) ==
    {c \in DOMAIN df.dtypes : c # key /\ df.dtypes[c] = "float64"}

\* df.groupby(key).mean(): one row per group, labelled by the group key.
groupby_mean(df, key) ==
    LET keys == GroupKeys(df, key)
        cols == NumericColumns(df, key)
    IN  [dtypes |-> [c \in cols |-> "float64"],
         rows |-> [g \in 1..Len(keys) |->
                      [c \in cols \cup {"index"} |->
                          IF c = "index" THEN keys[g]
                          ELSE mean(GroupCells(df, key, keys[g], c))]]]

\* In[32]: salary_average = salary_sort.groupby('department_name').mean()
In32 ==
    /\ pc = "In32"
    /\ salary_average' = groupby_mean(salary_sort, "department_name")
    /\ pc' = "In34"
    /\ UNCHANGED <<salary, salary_selected, salary_sort, salary_merged,
                   unemployment, unemployment_long, attendees>>

\* reset_index(): the row labels become the column `name` (the name of the
\* index, which groupby sets to the key) and the rows are labelled 0 .. n-1.
reset_index(df, name, kind) ==
    [dtypes |-> [c \in DOMAIN df.dtypes \cup {name} |->
                    IF c = name THEN kind ELSE df.dtypes[c]],
     rows |-> [i \in 1..Len(df.rows) |->
                  [c \in DOMAIN df.dtypes \cup {name, "index"} |->
                      CASE c = "index" -> i - 1
                        [] c = name -> df.rows[i].index
                        [] OTHER -> df.rows[i][c]]]]

\* In[34]: salary_average = salary_average.reset_index()
In34 ==
    /\ pc = "In34"
    /\ salary_average' = reset_index(salary_average, "department_name",
                                     salary_sort.dtypes["department_name"])
    /\ pc' = "In35"
    /\ UNCHANGED <<salary, salary_selected, salary_sort, salary_merged,
                   unemployment, unemployment_long, attendees>>

dept_average(name) == IF name = "total_earnings" THEN "dept_average" ELSE name

\* In[35]: salary_average = salary_average.rename(columns = {'total_earnings': 'dept_average'})
In35 ==
    /\ pc = "In35"
    /\ salary_average' = set_columns(salary_average,
               [c \in DOMAIN salary_average.dtypes |-> dept_average(c)])
    /\ pc' = "In40"
    /\ UNCHANGED <<salary, salary_selected, salary_sort, salary_merged,
                   unemployment, unemployment_long, attendees>>

RECURSIVE Concat(_)
Concat(ss) == IF ss = <<>> THEN <<>> ELSE Head(ss) \o Concat(Tail(ss))

Positions(df, on, k) ==
    SelectSeq([i \in 1..Len(df.rows) |-> i], LAMBDA i : df.rows[i][on] = k)

\* The join keys in the order the inner join walks them: the keys are
\* factorized over the left frame first, so they are numbered by their first
\* appearance in left, with NaN numbered last.
JoinKeys(left, on) ==
    LET keys == FirstAppearance(Column(left, on))
    IN  SelectSeq(keys, NotNA) \o SelectSeq(keys, IsNA)

\* The pairs of an inner join that keeps the order of the left rows.
JoinPairs_left_order(left, right, on) ==
    Concat([i \in 1..Len(left.rows) |->
        LET rs == Positions(right, on, left.rows[i][on])
        IN  [b \in 1..Len(rs) |-> <<i, rs[b]>>]])

\* The (left row, right row) pairs of the inner join, in output order: key
\* by key, and for one key the left rows in order, each with the right rows
\* of that key in order.  Keys are equal as cells (NaN joins NaN).
JoinPairs(left, right, on) ==
    LET keys == JoinKeys(left, on)
    IN  Concat([g \in 1..Len(keys) |->
            LET ls == Positions(left, on, keys[g])
                rs == Positions(right, on, keys[g])
            IN  Concat([a \in 1..Len(ls) |->
                    [b \in 1..Len(rs) |-> <<ls[a], rs[b]>>]])])

\* pd.merge(left, right, on = on): how = 'inner', sort = False.  The columns
\* are those of left followed by those of right other than the key; the rows
\* are labelled 0 .. n-1.
merge(left, right, on) ==
    LET pairs == JoinPairs(left, right, on)
        lcols == DOMAIN left.dtypes
        rcols == DOMAIN right.dtypes \ {on}
    IN  [dtypes |-> [c \in lcols \cup rcols |->
                        IF c \in lcols THEN left.dtypes[c] ELSE right.dtypes[c]],
         rows |-> [m \in 1..Len(pairs) |->
                      [c \in lcols \cup rcols \cup {"index"} |->
                          CASE c = "index" -> m - 1
                            [] c \in lcols -> left.rows[pairs[m][1]][c]
                            [] OTHER -> right.rows[pairs[m][2]][c]]]]

\* In[40]: salary_merged = pd.merge(salary_sort, salary_average, on = 'department_name')
In40 ==
    /\ pc = "In40"
    /\ salary_merged' = merge(salary_sort, salary_average, "department_name")
    /\ pc' = "In41"
    /\ UNCHANGED <<salary, salary_selected, salary_sort, salary_average,
                   unemployment, unemployment_long, attendees>>

(***************************************************************************)
(* Sections 3 and 4: the unemployment panel                                *)
(***************************************************************************)
Countries == {NA, Val(<<"A">>), Val(<<"B">>)}

Rates == {NA, Val(1), Val(3)}

\* The year columns of the sheet in the order they are laid out, and the
\* label (an integer) each carries.
YearColumns == <<"2012", "2013">>

Label(c) == CASE c = "2012" -> 2012 [] c = "2013" -> 2013

\* The frame read_excel returns for a sheet of n rows with the countries k
\* and the rates r: `columns` keeps the order of the columns.
UnemploymentFile(n, k, r) ==
    [columns |-> <<"Country">> \o YearColumns,
     dtypes |-> [c \in {"Country"} \cup RangeOf(YearColumns) |->
                    IF c = "Country" THEN InferKind(k) ELSE "float64"],
     rows |-> [i \in 1..n |->
                  [c \in {"index", "Country"} \cup RangeOf(YearColumns) |->
                      CASE c = "index" -> i - 1
                        [] c = "Country" -> k[i]
                        [] OTHER -> r[i][c]]]]

\* In[42], In[43]: unemployment = pd.read_excel('unemployment.xlsx', na_values = 'n/a')
\* (both cells read the same sheet; 'n/a' is NaN by default).
In43 ==
    /\ pc = "In43"
    /\ \E n \in 0..MaxCountries :
           \E k \in [1..n -> Countries],
              r \in [1..n -> [RangeOf(YearColumns) -> Rates]] :
               unemployment' = UnemploymentFile(n, k, r)
    /\ pc' = "In44"
    /\ UNCHANGED <<salary, salary_selected, salary_sort, salary_average,
                   salary_merged, unemployment_long, attendees>>

\* A melt that walks the frame row by row: all value columns of the first
\* row, then all value columns of the second, and so on.
melt_row_major(df, id_var, var_name, value_name) ==
    LET value_vars == SelectSeq(df.columns, LAMBDA c : c # id_var)
        k == Len(value_vars)
    IN  [dtypes |-> [c \in {id_var, var_name, value_name} |->
                        CASE c = id_var -> df.dtypes[id_var]
                          [] c = var_name -> "int64"
                          [] c = value_name -> "float64"],
         rows |-> [m \in 1..(Len(df.rows) * k) |->
                      LET i == ((m - 1) \div k) + 1
                          v == ((m - 1) % k) + 1
                      IN  [c \in {"index", id_var, var_name, value_name} |->
                              CASE c = "index" -> m - 1
                                [] c = id_var -> df.rows[i][id_var]
                                [] c = var_name -> Val(Label(value_vars[v]))
                                [] c = value_name -> df.rows[i][value_vars[v]]]]]

\* A melt that leaves out the cells that are NaN.
melt_dropna(df, id_var, var_name, value_name) ==
    LET value_vars == SelectSeq(df.columns, LAMBDA c : c # id_var)
        n == Len(df.rows)
        cells == SelectSeq([m \in 1..(n * Len(value_vars)) |->
                               <<((m - 1) % n) + 1, ((m - 1) \div n) + 1>>],
                           LAMBDA q : NotNA(df.rows[q[1]][value_vars[q[2]]]))
    IN  [dtypes |-> [c \in {id_var, var_name, value_name} |->
                        CASE c = id_var -> df.dtypes[id_var]
                          [] c = var_name -> "int64"
                          [] c = value_name -> "float64"],
         rows |-> [m \in 1..Len(cells) |->
                      [c \in {"index", id_var, var_name, value_name} |->
                          CASE c = "index" -> m - 1
                            [] c = id_var -> df.rows[cells[m][1]][id_var]
                            [] c = var_name -> Val(Label(value_vars[cells[m][2]]))
                            [] c = value_name ->
                                 df.rows[cells[m][1]][value_vars[cells[m][2]]]]]]

\* pd.melt(df, id_vars, var_name, value_name): every column that is not an
\* id column is a value column.  The output is built value column by value
\* column: all rows of df for the first value column, then all rows for the
\* second, and so on; a NaN cell gives a row like any other.  The rows are
\* labelled 0 .. n-1.
melt(df, id_var, var_name, value_name) ==
    LET value_vars == SelectSeq(df.columns, LAMBDA c : c # id_var)
        n == Len(df.rows)
    IN  [dtypes |-> [c \in {id_var, var_name, value_name} |->
                        CASE c = id_var -> df.dtypes[id_var]
                          [] c = var_name -> "int64"
                          [] c = value_name -> "float64"],
         rows |-> [m \in 1..(n * Len(value_vars)) |->
                      LET v == ((m - 1) \div n) + 1
                          i == ((m - 1) % n) + 1
                      IN  [c \in {"index", id_var, var_name, value_name} |->
                              CASE c = "index" -> m - 1
                                [] c = id_var -> df.rows[i][id_var]
                                [] c = var_name -> Val(Label(value_vars[v]))
                                [] c = value_name -> df.rows[i][value_vars[v]]]]]

\* In[44]: unemployment_long = pd.melt(unemployment, id_vars = 'Country',
\*                                     var_name = 'Year', value_name = 'Rate_Unemployed')
In44 ==
    /\ pc = "In44"
    /\ unemployment_long' = melt(unemployment, "Country", "Year", "Rate_Unemployed")
    /\ pc' = "In46"
    /\ UNCHANGED <<salary, salary_selected, salary_sort, salary_average,
                   salary_merged, unemployment, attendees>>

\* Row r sorts strictly before row s on the keys `by`, the first key that
\* tells them apart deciding.
RECURSIVE RowBefore(_, _, _, _)
RowBefore(df, r, s, by) ==
    /\ by # <<>>
    /\ LET k == Head(by)
       IN  \/ Before(df.dtypes[k], r[k], s[k], TRUE)
           \/ /\ ~Before(df.dtypes[k], s[k], r[k], TRUE)
              /\ RowBefore(df, r, s, Tail(by))

\* DataFrame.sort_values(by) with several keys sorts with a stable lexsort:
\* rows that agree on every key keep their order.  The place of row i in the
\* output is one more than the number of rows that go before it: those that
\* sort before it, and those that tie with it and stand earlier.
LexsortRank(df, by, i) ==
    1 + Cardinality({j \in 1..Len(df.rows) :
            \/ RowBefore(df, df.rows[j], df.rows[i], by)
            \/ /\ ~RowBefore(df, df.rows[i], df.rows[j], by)
               /\ j < i})

LexsortOrder(df, by) ==
    [m \in 1..Len(df.rows) |->
        CHOOSE i \in 1..Len(df.rows) : LexsortRank(df, by, i) = m]

sort_values_by(df, by) == Take(df, LexsortOrder(df, by))

\* In[46]: unemployment_long = unemployment_long.sort_values(['Country', 'Year'])
In46 ==
    /\ pc = "In46"
    /\ unemployment_long' = sort_values_by(unemployment_long, <<"Country", "Year">>)
    /\ pc' = "In47"
    /\ UNCHANGED <<salary, salary_selected, salary_sort, salary_average,
                   salary_merged, unemployment, attendees>>

\* In[47]: unemployment_long = unemployment_long.reset_index(drop = True)
In47 ==
    /\ pc = "In47"
    /\ unemployment_long' = reset_index_drop(unemployment_long)
    /\ pc' = "In48"
    /\ UNCHANGED <<salary, salary_selected, salary_sort, salary_average,
                   salary_merged, unemployment, attendees>>

\* Subtraction of cells: NaN if either is NaN.
Minus(a, b) == IF IsNA(a) \/ IsNA(b) THEN NA ELSE Val(Get(a) - Get(b))

\* Series.diff(): each row minus the row before it; the first row is NaN.
diff(cells) ==
    [i \in 1..Len(cells) |-> IF i = 1 THEN NA ELSE Minus(cells[i], cells[i - 1])]

\* A column assignment that writes only the values that exist: a row whose
\* value is NaN gets no entry in the column.
assign_omit_missing(df, col, kind, values) ==
    [df EXCEPT !.dtypes = [c \in DOMAIN df.dtypes \cup {col} |->
                              IF c = col THEN kind ELSE df.dtypes[c]],
               !.rows = [i \in 1..Len(df.rows) |->
                            [c \in (DOMAIN df.rows[i] \ {col}) \cup
                                    (IF IsNA(values[i]) THEN {} ELSE {col}) |->
                                IF c = col THEN values[i] ELSE df.rows[i][c]]]]

\* df[col] = values: a column is added or overwritten (values come in frame
\* order with the frame's own row labels).
assign(df, col, kind, values) ==
    [df EXCEPT !.dtypes = [c \in DOMAIN df.dtypes \cup {col} |->
                              IF c = col THEN kind ELSE df.dtypes[c]],
               !.rows = [i \in 1..Len(df.rows) |->
                            [c \in DOMAIN df.rows[i] \cup {col} |->
                                IF c = col THEN values[i] ELSE df.rows[i][c]]]]

\* In[48]: unemployment_long['Change'] = unemployment_long.Rate_Unemployed.diff()
In48 ==
    /\ pc = "In48"
    /\ unemployment_long' =
           assign(unemployment_long, "Change", "float64",
                  diff(Column(unemployment_long, "Rate_Unemployed")))
    /\ pc' = "In51"
    /\ UNCHANGED <<salary, salary_selected, salary_sort, salary_average,
                   salary_merged, unemployment, attendees>>

\* The difference taken down the whole column, whatever the key.
groupby_diff_flat(df, key, col) ==
    [i \in 1..Len(df.rows) |->
        IF i = 1 THEN NA ELSE Minus(df.rows[i][col], df.rows[i - 1][col])]

\* df.groupby(key)[col].diff(): diff() inside each group, put back at the
\* rows' own places.  The row before row i is the last earlier row with the
\* same key; a row whose key is NaN is in no group and gets NaN.
groupby_diff(df, key, col) ==
    [i \in 1..Len(df.rows) |->
        LET earlier == {j \in 1..(i - 1) : df.rows[j][key] = df.rows[i][key]}
        IN  IF IsNA(df.rows[i][key]) \/ earlier = {} THEN NA
            ELSE LET j == CHOOSE j \in earlier : \A h \in earlier : h <= j
                 IN  Minus(df.rows[i][col], df.rows[j][col])]

\* In[51]: unemployment_long['Change'] = (unemployment_long.groupby('Country')
\*                                        .Rate_Unemployed.diff())
In51 ==
    /\ pc = "In51"
    /\ unemployment_long' =
           assign(unemployment_long, "Change", "float64",
                  groupby_diff(unemployment_long, "Country", "Rate_Unemployed"))
    /\ pc' = "In52a"
    /\ UNCHANGED <<salary, salary_selected, salary_sort, salary_average,
                   salary_merged, unemployment, attendees>>

(***************************************************************************)
(* Section 5: the attendees                                                *)
(***************************************************************************)
AgeGroups == {NA, Val("30 - 39"), Val("30-39"), Val("40 - 49")}

Statuses == {NA, Val("Nonprofit, Academic, Government"),
             Val("Nonprofit, Academic, Government Early Bird"), Val("Student")}

\* The frame read_csv returns for n attendees with the age groups a and the
\* statuses s.
AttendeesFile(n, a, s) ==
    [dtypes |-> [c \in {"Age group", "Choose your status:"} |->
                    IF c = "Age group" THEN InferKind(a) ELSE InferKind(s)],
     rows |-> [i \in 1..n |->
                  [c \in {"index", "Age group", "Choose your status:"} |->
                      CASE c = "index" -> i - 1
                        [] c = "Age group" -> a[i]
                        [] OTHER -> s[i]]]]

\* In[52]: attendees = pd.read_csv('attendees.csv')
In52 ==
    /\ pc = "In52"
    /\ \E n \in 0..MaxAttendees :
           \E a \in [1..n -> AgeGroups], s \in [1..n -> Statuses] :
               attendees' = AttendeesFile(n, a, s)
    /\ pc' = "In55"
    /\ UNCHANGED <<salary, salary_selected, salary_sort, salary_average,
                   salary_merged, unemployment, unemployment_long>>

\* series == value, elementwise: NaN equals nothing.
Eq(cell, value) == NotNA(cell) /\ Get(cell) = value

\* A recode that gives NaN where the condition does not hold.
np_where_else_nan(condition, x, cell, kind) ==
    IF condition THEN Val(x) ELSE NA

\* np.where(condition, x, series) for a str x, one element: x where the
\* condition holds and the element of series elsewhere.  numpy brings x and
\* series to one kind first: with an object series that is object and the
\* element passes through as it is (NaN stays NaN); a float64 series (all
\* NaN) is turned into text, and NaN becomes the string 'nan'.
np_where(condition, x, cell, kind) ==
    IF condition THEN Val(x)
    ELSE IF kind = "object" THEN cell
    ELSE IF IsNA(cell) THEN Val("nan") ELSE cell

AgeGroupRecoded(df) ==
    [i \in 1..Len(df.rows) |->
        np_where(Eq(df.rows[i]["Age group"], "30 - 39"), "30-39",
                 df.rows[i]["Age group"], df.dtypes["Age group"])]

\* In[55]: attendees['Age group'] = np.where(attendees['Age group'] == '30 - 39',
\*                                           '30-39', attendees['Age group'])
In55 ==
    /\ pc = "In55"
    /\ attendees' = assign(attendees, "Age group", "object", AgeGroupRecoded(attendees))
    /\ pc' = "In58"
    /\ UNCHANGED <<salary, salary_selected, salary_sort, salary_average,
                   salary_merged, unemployment, unemployment_long>>

StatusRecoded(df) ==
    [i \in 1..Len(df.rows) |->
        np_where(\/ Eq(df.rows[i]["Choose your status:"],
                       "Nonprofit, Academic, Government")
                 \/ Eq(df.rows[i]["Choose your status:"],
                       "Nonprofit, Academic, Government Early Bird"),
                 "Nonprofit/Gov",
                 df.rows[i]["Choose your status:"],
                 df.dtypes["Choose your status:"])]

\* In[58]: attendees['status'] = np.where((attendees['Choose your status:'] == ...) |
\*                                        (attendees['Choose your status:'] == ...),
\*                                        'Nonprofit/Gov', attendees['Choose your status:'])
In58 ==
    /\ pc = "In58"
    /\ attendees' = assign(attendees, "status", "object", StatusRecoded(attendees))
    /\ pc' = "In59"
    /\ UNCHANGED <<salary, salary_selected, salary_sort, salary_average,
                   salary_merged, unemployment, unemployment_long>>

Init ==
    /\ pc \in {"In3", "In43", "In52"}
    /\ salary = Unbound
    /\ salary_selected = Unbound
    /\ salary_sort = Unbound
    /\ salary_average = Unbound
    /\ salary_merged = Unbound
    /\ unemployment = Unbound
    /\ unemployment_long = Unbound
    /\ attendees = Unbound

Next ==
    \/ In3 \/ In9 \/ In12 \/ In14 \/ In16 \/ In20 \/ In22 \/ In24 \/ In27
    \/ In29 \/ In30 \/ In31 \/ In32 \/ In34 \/ In35 \/ In40
    \/ In43 \/ In44 \/ In46 \/ In47 \/ In48 \/ In51
    \/ In52 \/ In55 \/ In58

Spec == Init /\ [][Next]_vars

(***************************************************************************)
(* Properties of the unemployment panel                                    *)
(***************************************************************************)
\* Two rows are in the same group: they have the same key, and a row whose
\* key is NaN is in no group.
SameGroup(r, s, key) == NotNA(r[key]) /\ r[key] = s[key]

\* C1: after the grouped difference In[51] on the panel sorted by Country
\* then Year, the Change of every row is Rate_Unemployed of the row minus
\* Rate_Unemployed of the row before it when the row before it is in the same
\* group (NaN when either rate is NaN), and NaN otherwise: the first row of
\* every group is NaN and no difference is taken across a group boundary.
C1_GroupedDiff ==
    pc = "In52a" =>
        LET rows == unemployment_long.rows
        IN  \A i \in 1..Len(rows) :
                rows[i]["Change"] =
                    IF i > 1 /\ SameGroup(rows[i], rows[i - 1], "Country")
                    THEN IF NotNA(rows[i]["Rate_Unemployed"])
                            /\ NotNA(rows[i - 1]["Rate_Unemployed"])
                         THEN Val(Get(rows[i]["Rate_Unemployed"])
                                  - Get(rows[i - 1]["Rate_Unemployed"]))
                         ELSE NA
                    ELSE NA

\* A panel of two countries, where a group boundary lies between two rates
\* that differ and a difference inside a group is not zero.
C1_Witness ==
    /\ pc = "In52a"
    /\ LET rows == unemployment_long.rows
       IN  /\ \E i \in 2..Len(rows) :
                  /\ NotNA(rows[i]["Country"]) /\ NotNA(rows[i - 1]["Country"])
                  /\ rows[i]["Country"] # rows[i - 1]["Country"]
                  /\ NotNA(rows[i]["Rate_Unemployed"])
                  /\ NotNA(rows[i - 1]["Rate_Unemployed"])
                  /\ rows[i]["Rate_Unemployed"] # rows[i - 1]["Rate_Unemployed"]
                  /\ IsNA(rows[i]["Change"])
           /\ \E i \in 1..Len(rows) : rows[i]["Change"] = Val(2)

\* What one row of the long table holds for input row i and value column v.
Melted(i, v) ==
    LET value_vars == SelectSeq(unemployment.columns, LAMBDA c : c # "Country")
    IN  [Country |-> unemployment.rows[i]["Country"],
         Year |-> Val(Label(value_vars[v])),
         Rate_Unemployed |-> unemployment.rows[i][value_vars[v]]]

Content(row) ==
    [Country |-> row["Country"], Year |-> row["Year"],
     Rate_Unemployed |-> row["Rate_Unemployed"]]

ValueColumnCount == Len(unemployment.columns) - 1

\* C2: melt In[44] returns one row per (input row, value column) pair: the
\* output has row_count(input) * (number of columns other than Country) rows,
\* and for each pair it holds as many rows with the pair's Country, the
\* column's label as Year and the cell (NaN included) as Rate_Unemployed as
\* there are pairs with that content.
C2_MeltOneRowPerPair ==
    pc = "In46" =>
        LET n == Len(unemployment.rows)
            k == ValueColumnCount
            out == unemployment_long.rows
        IN  /\ Len(out) = n * k
            /\ DOMAIN unemployment_long.dtypes = {"Country", "Year", "Rate_Unemployed"}
            /\ \A i \in 1..n, v \in 1..k :
                   Cardinality({m \in 1..Len(out) : Content(out[m]) = Melted(i, v)})
                     = Cardinality({q \in (1..n) \X (1..k) :
                                       Melted(q[1], q[2]) = Melted(i, v)})

\* Two input rows, one of them with a NaN cell that has its own output row.
C2_Witness ==
    /\ pc = "In46"
    /\ Len(unemployment.rows) = 2
    /\ Len(unemployment_long.rows) = 4
    /\ \E m \in 1..4 : IsNA(unemployment_long.rows[m]["Rate_Unemployed"])
    /\ \E m \in 1..4 : NotNA(unemployment_long.rows[m]["Rate_Unemployed"])

\* C3 as stated: the rows of melt's output are grouped by input row first,
\* and within one input row follow the order of the value columns.
C3_RowMajor ==
    pc = "In46" =>
        LET k == ValueColumnCount
            out == unemployment_long.rows
        IN  \A m \in 1..Len(out) :
                Content(out[m]) = Melted(((m - 1) \div k) + 1, ((m - 1) % k) + 1)

\* C3, amended: the rows of melt's output are grouped by value column first,
\* in the order of the value columns, and within one value column follow the
\* order of the input rows.
C3_ColumnMajor ==
    pc = "In46" =>
        LET n == Len(unemployment.rows)
            out == unemployment_long.rows
        IN  \A m \in 1..Len(out) :
                Content(out[m]) = Melted(((m - 1) % n) + 1, ((m - 1) \div n) + 1)

\* Two input rows of different countries: the two orders differ.
C3_Witness ==
    /\ pc = "In46"
    /\ Len(unemployment.rows) = 2
    /\ NotNA(unemployment.rows[1]["Country"])
    /\ NotNA(unemployment.rows[2]["Country"])
    /\ unemployment.rows[1]["Country"] # unemployment.rows[2]["Country"]
    /\ unemployment_long.rows[2]["Country"] = unemployment.rows[2]["Country"]

(***************************************************************************)
(* Properties of the earnings report                                       *)
(***************************************************************************)
RECURSIVE SumOver(_, _)
SumOver(S, f) ==
    IF S = {} THEN 0
    ELSE LET x == CHOOSE x \in S : TRUE IN f[x] + SumOver(S \ {x}, f)

PresentKeys(df, key) == {df.rows[i][key] : i \in 1..Len(df.rows)} \ {NA}

\* C4: the grouped mean In[32] has exactly one row per distinct department
\* (a value: a row whose department is NaN is in no group); the reduced value
\* of a group is the arithmetic mean of exactly the group's total_earnings
\* that are not NaN, NaN for a group whose total_earnings are all NaN; and
\* the text column `name` is dropped from the result.
C4_GroupedMean ==
    pc = "In34" =>
        LET src == salary_sort.rows
            out == salary_average.rows
        IN  /\ Len(out) = Cardinality(PresentKeys(salary_sort, "department_name"))
            /\ {out[g].index : g \in 1..Len(out)} =
                   PresentKeys(salary_sort, "department_name")
            /\ DOMAIN salary_average.dtypes = {"total_earnings"}
            /\ \A g \in 1..Len(out) :
                   LET members == {i \in 1..Len(src) :
                                      /\ src[i]["department_name"] = out[g].index
                                      /\ NotNA(src[i]["total_earnings"])}
                       total == SumOver(members,
                                    [i \in members |-> Get(src[i]["total_earnings"])])
                       m == out[g]["total_earnings"]
                   IN  IF members = {} THEN IsNA(m)
                       ELSE /\ NotNA(m)
                            /\ Get(m).den > 0
                            /\ Get(m).num * Cardinality(members) = total * Get(m).den

\* A department with the earnings 10, 3 and NaN (mean 13/2).
C4_Witness ==
    /\ pc = "In34"
    /\ Len(salary_sort.rows) = 3
    /\ Len(salary_average.rows) = 1
    /\ \E i \in 1..3 : IsNA(salary_sort.rows[i]["total_earnings"])
    /\ salary_average.rows[1]["total_earnings"] = Val([num |-> 13, den |-> 2])

\* Which rows of left and right a row of the merged frame joins: names are
\* unique in salary_sort and departments are unique in salary_average.
LeftPos(m) ==
    CHOOSE i \in 1..Len(salary_sort.rows) :
        salary_sort.rows[i]["name"] = salary_merged.rows[m]["name"]

RightPos(m) ==
    CHOOSE j \in 1..Len(salary_average.rows) :
        salary_average.rows[j]["department_name"] =
            salary_merged.rows[m]["department_name"]

\* The first row of left that has the department of merged row m.
KeyFirst(m) ==
    CHOOSE i \in 1..Len(salary_sort.rows) :
        /\ salary_sort.rows[i]["department_name"] =
               salary_merged.rows[m]["department_name"]
        /\ \A h \in 1..(i - 1) :
               salary_sort.rows[h]["department_name"] #
                   salary_merged.rows[m]["department_name"]

\* The merged frame holds exactly one row per (left row, right row) pair with
\* equal department_name, carrying the cells of both, and nothing else: its
\* row count is the sum over the shared keys of (count in left) * (count in
\* right).
MergedPairs ==
    LET left == salary_sort.rows
        right == salary_average.rows
        out == salary_merged.rows
        shared == RangeOf(Column(salary_sort, "department_name"))
                      \cap RangeOf(Column(salary_average, "department_name"))
        product == [k \in shared |->
                       Cardinality({i \in 1..Len(left) : left[i]["department_name"] = k})
                     * Cardinality({j \in 1..Len(right) : right[j]["department_name"] = k})]
    IN  /\ Len(out) = SumOver(shared, product)
        /\ \A i \in 1..Len(left), j \in 1..Len(right) :
               left[i]["department_name"] = right[j]["department_name"] =>
                   Cardinality({m \in 1..Len(out) :
                       /\ out[m]["name"] = left[i]["name"]
                       /\ out[m]["department_name"] = left[i]["department_name"]
                       /\ out[m]["total_earnings"] = left[i]["total_earnings"]
                       /\ out[m]["dept_average"] = right[j]["dept_average"]}) = 1
        /\ \A m \in 1..Len(out) :
               \E i \in 1..Len(left), j \in 1..Len(right) :
                   /\ left[i]["department_name"] = right[j]["department_name"]
                   /\ out[m]["name"] = left[i]["name"]
                   /\ out[m]["department_name"] = right[j]["department_name"]

\* C5 as stated: the inner merge In[40] returns exactly one row per matching
\* (left row, right row) pair and drops the rest, and the matches are ordered
\* by left row, then by right row.
C5_LeftRowMajor ==
    pc = "In41" =>
        /\ MergedPairs
        /\ \A a, b \in 1..Len(salary_merged.rows) :
               a < b => \/ LeftPos(a) < LeftPos(b)
                        \/ LeftPos(a) = LeftPos(b) /\ RightPos(a) < RightPos(b)

\* C5, amended: the inner merge In[40] returns exactly one row per matching
\* (left row, right row) pair and drops the rest; the matches are ordered by
\* key, the keys in the order of their first appearance in left, and for one
\* key by left row, then by right row.
C5_KeyMajor ==
    pc = "In41" =>
        /\ MergedPairs
        /\ \A a, b \in 1..Len(salary_merged.rows) :
               a < b =>
                   \/ KeyFirst(a) < KeyFirst(b)
                   \/ KeyFirst(a) = KeyFirst(b) /\ LeftPos(a) < LeftPos(b)
                   \/ /\ KeyFirst(a) = KeyFirst(b)
                      /\ LeftPos(a) = LeftPos(b)
                      /\ RightPos(a) < RightPos(b)

\* Three employees, the second of another department than the first and the
\* third: the merged frame puts the third before the second.
C5_Witness ==
    /\ pc = "In41"
    /\ Len(salary_sort.rows) = 3
    /\ Len(salary_merged.rows) = 3
    /\ salary_sort.rows[1]["department_name"] = salary_sort.rows[3]["department_name"]
    /\ salary_sort.rows[1]["department_name"] # salary_sort.rows[2]["department_name"]
    /\ salary_merged.rows[2]["name"] = salary_sort.rows[3]["name"]

\* The row of salary_selected (the stripped text) with the label of row r.
Stripped(r) ==
    LET i == CHOOSE i \in 1..Len(salary_selected.rows) :
                 salary_selected.rows[i].index = r.index
    IN  salary_selected.rows[i]["total_earnings"]

\* C6 as stated: the coercion In[27] of the column stripped of ',' and '$'
\* never aborts: every cell whose residue is empty or no number becomes NaN,
\* every other cell its number, and the column keeps its length.
C6_CoercionNeverAborts ==
    /\ pc # "ValueError"
    /\ pc = "In29" =>
           /\ Len(salary_sort.rows) = Len(salary_selected.rows)
           /\ \A i \in 1..Len(salary_sort.rows) :
                  LET text == Stripped(salary_sort.rows[i])
                  IN  salary_sort.rows[i]["total_earnings"] =
                          IF IsNA(text) \/ ~IsNumber(Get(text)) THEN NA
                          ELSE Val(ParseNat(Get(text)))

FirstRow(df, key, k) ==
    CHOOSE i \in 1..Len(df.rows) :
        /\ df.rows[i][key] = k
        /\ \A h \in 1..(i - 1) : df.rows[h][key] # k

\* C10 as stated: in salary_average the departments appear in the order in
\* which each first appears in the rows of salary_sort.
C10_FirstAppearanceOrder ==
    pc \in {"In35", "In40", "In41"} =>
        \A a, b \in 1..Len(salary_average.rows) :
            a < b =>
                FirstRow(salary_sort, "department_name",
                         salary_average.rows[a]["department_name"])
                  < FirstRow(salary_sort, "department_name",
                             salary_average.rows[b]["department_name"])

\* C10, amended: in salary_average the departments appear in ascending sorted
\* order (groupby sorts the group keys), not in the order of their first
\* appearance in salary_sort.
C10_SortedKeyOrder ==
    pc \in {"In35", "In40", "In41"} =>
        \A a, b \in 1..Len(salary_average.rows) :
            a < b => StrLess(Get(salary_average.rows[a]["department_name"]),
                             Get(salary_average.rows[b]["department_name"]))

\* Department B appears in salary_sort before department A.
C10_Witness ==
    /\ pc = "In35"
    /\ Len(salary_average.rows) = 2
    /\ salary_sort.rows[1]["department_name"] = Val(<<"B">>)
    /\ salary_average.rows[1]["department_name"] = Val(<<"A">>)

\* The place in frame `before` of the row with the label of row r.
PosIn(before, r) ==
    CHOOSE j \in 1..Len(before.rows) : before.rows[j].index = r.index

\* `after` holds the rows of `before`, each once.
IsPermutation(before, after) ==
    /\ Len(after.rows) = Len(before.rows)
    /\ RangeOf(after.rows) = RangeOf(before.rows)
    /\ \A i, j \in 1..Len(after.rows) :
           i # j => after.rows[i].index # after.rows[j].index

\* Adjacent rows whose keys are both present are in order on the numeric key.
AdjacentOrdered(after, by, ascending) ==
    \A i \in 1..(Len(after.rows) - 1) :
        LET a == after.rows[i][by]
            b == after.rows[i + 1][by]
        IN  NotNA(a) /\ NotNA(b) =>
                IF ascending THEN Get(a) <= Get(b) ELSE Get(a) >= Get(b)

\* Rows whose key is NaN come after every row whose key is present.
MissingLast(after, by) ==
    \A i \in 1..(Len(after.rows) - 1) :
        IsNA(after.rows[i][by]) => IsNA(after.rows[i + 1][by])

\* Rows with equal keys are in the order they had in `before`.
KeepsTieOrder(before, after, by) ==
    \A i, j \in 1..Len(after.rows) :
        (i < j /\ \A k \in RangeOf(by) : after.rows[i][k] = after.rows[j][k])
            => PosIn(before, after.rows[i]) < PosIn(before, after.rows[j])

\* Adjacent rows are in order on (Country, Year): Country as text with NaN
\* last, and Year upwards where the countries are equal.
PanelOrdered(after) ==
    \A i \in 1..(Len(after.rows) - 1) :
        LET r == after.rows[i]
            t == after.rows[i + 1]
        IN  /\ IsNA(r["Country"]) => IsNA(t["Country"])
            /\ NotNA(r["Country"]) /\ NotNA(t["Country"]) =>
                   ~StrLess(Get(t["Country"]), Get(r["Country"]))
            /\ r["Country"] = t["Country"] => Get(r["Year"]) <= Get(t["Year"])

LaterCells ==
    {"In16", "In24", "In27", "In29", "In30", "In31", "In32", "In34", "In35", "In40"}

\* C8 as stated: a transformation never changes its input: stripping (In[20],
\* In[22]) and coercing (In[27]) total_earnings leave the text column of the
\* table they are applied to as it was, and no later sort, coercion,
\* aggregation or merge changes a cell or a column kind of salary or
\* salary_selected.
C8_InputsUnchanged ==
    [][/\ pc \in {"In20", "In22"} =>
              Column(salary_selected', "total_earnings") =
                  Column(salary_selected, "total_earnings")
       /\ pc = "In27" =>
              salary_sort'.dtypes["total_earnings"] =
                  salary_sort.dtypes["total_earnings"]
       /\ pc \in LaterCells \cup {"In9", "In12", "In14", "In20", "In22"} =>
              salary' = salary
       /\ pc \in LaterCells => salary_selected' = salary_selected]_vars

\* C8, amended: salary is never changed once it is loaded, and no sort,
\* coercion, aggregation or merge changes a cell or a column kind of
\* salary_selected; but the two strips overwrite the total_earnings column
\* of salary_selected, the table they are applied to, in place (its other
\* columns, its kinds and its length stay), and the coercion overwrites the
\* total_earnings column of salary_sort in place and makes its kind float64:
\* the original text column of the table a step is applied to is replaced.
C8_OnlyAssignedColumnChanges ==
    [][/\ pc \in LaterCells \cup {"In9", "In12", "In14", "In20", "In22"} =>
              salary' = salary
       /\ pc \in LaterCells => salary_selected' = salary_selected
       /\ pc \in {"In20", "In22"} /\ pc' # "AttributeError" =>
              /\ salary_selected'.dtypes = salary_selected.dtypes
              /\ Len(salary_selected'.rows) = Len(salary_selected.rows)
              /\ \A i \in 1..Len(salary_selected.rows) :
                     /\ \A c \in {"index", "name", "department_name"} :
                            salary_selected'.rows[i][c] = salary_selected.rows[i][c]
                     /\ salary_selected'.rows[i]["total_earnings"] =
                            Series_str_replace(
                                salary_selected.rows[i]["total_earnings"],
                                IF pc = "In20" THEN "," ELSE "$", <<>>)
       /\ pc = "In27" /\ pc' = "In29" =>
              /\ salary_sort.dtypes["total_earnings"] = "object"
              /\ salary_sort'.dtypes["total_earnings"] = "float64"
              /\ IndexOf(salary_sort') = IndexOf(salary_sort)]_vars

\* The whole of sections 1 and 2 has run: the strips have changed a cell of
\* salary_selected, salary still holds it as loaded, and the sorts have
\* reordered salary_sort.
C8_Witness ==
    /\ pc = "In41"
    /\ Len(salary_merged.rows) > 1
    /\ \E i \in 1..Len(salary.rows) :
           /\ salary.rows[i]["TOTAL EARNINGS"] = Val(<<"$", "1", ",", "0">>)
           /\ salary_selected.rows[i]["total_earnings"] = Val(<<"1", "0">>)
    /\ salary_selected.dtypes["total_earnings"] = "object"
    /\ salary_sort.dtypes["total_earnings"] = "float64"
    /\ salary_sort.rows[1]["name"] # salary_selected.rows[1]["name"]

(***************************************************************************)
(* Properties of the attendees                                             *)
(***************************************************************************)
\* C9 as stated: the recode from the text column src of `before` into column
\* dst of `after` is elementwise and total: the replacement where the source
\* value is one of `matches`, the source value unchanged elsewhere, never
\* missing, and as long as the source column.
RecodedNeverMissing(before, after, src, dst, matches, replacement) ==
    /\ Len(after.rows) = Len(before.rows)
    /\ \A i \in 1..Len(before.rows) :
           LET source == before.rows[i][src]
               output == after.rows[i][dst]
           IN  before.dtypes[src] = "object" =>
                   /\ NotNA(output)
                   /\ output = IF NotNA(source) /\ Get(source) \in matches
                               THEN Val(replacement) ELSE source

Recoded(before, after, src, dst, matches, replacement) ==
    /\ Len(after.rows) = Len(before.rows)
    /\ \A i \in 1..Len(before.rows) :
           LET source == before.rows[i][src]
               output == after.rows[i][dst]
           IN  IF before.dtypes[src] = "object"
               THEN /\ output = IF NotNA(source) /\ Get(source) \in matches
                                THEN Val(replacement) ELSE source
                    /\ NotNA(source) => NotNA(output)
               ELSE IsNA(source) /\ output = Val("nan")

GroupRows(df, key, k) == {i \in 1..Len(df.rows) : df.rows[i][key] = k}

\* C11 as stated: the grouped mean In[32] puts every row of salary_sort,
\* a row whose department is NaN included, into exactly one group: every row
\* has exactly one row of salary_average labelled with its department, and
\* the row counts of the groups add up to the number of rows of salary_sort.
C11_EveryRowInOneGroup ==
    pc = "In34" =>
        LET out == salary_average.rows
            groups == 1..Len(out)
        IN  /\ \A i \in 1..Len(salary_sort.rows) :
                   Cardinality({g \in groups :
                       i \in GroupRows(salary_sort, "department_name",
                                       out[g].index)}) = 1
            /\ SumOver(groups,
                   [g \in groups |->
                       Cardinality(GroupRows(salary_sort, "department_name",
                                             out[g].index))])
                   = Len(salary_sort.rows)

(***************************************************************************)
(* The shape of the tables                                                 *)
(***************************************************************************)
\* The entries column col of df holds: one for every row that has a cell
\* under col.
Entries(df, col) == SelectSeq(df.rows, LAMBDA r : col \in DOMAIN r)

\* A cell is the missing marker or one value.
IsCell(c) == IsNA(c) \/ Len(c) = 1

\* Every column of df has one entry for every row of df, each a value or the
\* missing marker, and no row has a cell outside the columns of df.
Rectangular(df) ==
    /\ \A c \in DOMAIN df.dtypes :
           /\ Len(Entries(df, c)) = Len(df.rows)
           /\ \A i \in 1..Len(df.rows) : IsCell(df.rows[i][c])
    /\ \A i \in 1..Len(df.rows) :
           DOMAIN df.rows[i] = DOMAIN df.dtypes \cup {"index"}

\* df has the column col, with one entry for every row.
HasColumn(df, col) ==
    /\ col \in DOMAIN df.dtypes
    /\ Len(Entries(df, col)) = Len(df.rows)

\* C12: after every cell of the notebook every column of every table has
\* exactly as many entries as the table has rows, each a value or the
\* missing marker; the attached columns Change (after the flat difference
\* In[48] and after the grouped one In[51]) and status (after the recode
\* In[58]) have one entry for every row of their table, and attaching Change
\* leaves the panel with its one row for every country and year.
C12_ColumnsHaveNEntries ==
    /\ \A df \in {salary, salary_selected, salary_sort, salary_average,
                  salary_merged, unemployment, unemployment_long, attendees} :
           Rectangular(df)
    /\ pc \in {"In51", "In52a"} =>
           /\ HasColumn(unemployment_long, "Change")
           /\ Len(unemployment_long.rows) =
                  Len(unemployment.rows) * Len(YearColumns)
    /\ pc = "In59" => HasColumn(attendees, "status")

\* The grouped difference has run on a panel of two rows of one country: the
\* column Change has four entries, a missing one and a value among them.
C12_Witness ==
    /\ pc = "In52a"
    /\ Len(unemployment_long.rows) = 4
    /\ Len(Entries(unemployment_long, "Change")) = 4
    /\ \E i, j \in 1..4 :
           /\ IsNA(unemployment_long.rows[i]["Change"])
           /\ NotNA(unemployment_long.rows[j]["Change"])

(***************************************************************************)
(* The flat difference against the grouped one                             *)
(***************************************************************************)
\* Row i of the sorted panel is the first row of a group after the first:
\* its Country is not that of the row before it.
GroupBoundary(rows, i) == i > 1 /\ rows[i]["Country"] # rows[i - 1]["Country"]

\* C13 as stated: when In[51] overwrites the flat difference of In[48] with
\* the grouped one on the sorted panel, Change stays as it is on every row
\* whose previous row is in the same group; it changes only at the first row
\* of a group after the first, where the flat Change is the difference taken
\* across the boundary (a value when both rates are present) and the grouped
\* Change is NaN, so that no difference across a boundary is left.
C13_FlatDiffersOnlyAtBoundaries ==
    [][pc = "In51" =>
          LET flat == unemployment_long.rows
              grouped == unemployment_long'.rows
          IN  /\ Len(grouped) = Len(flat)
              /\ \A i \in 1..Len(flat) :
                     /\ (i > 1 /\ SameGroup(flat[i], flat[i - 1], "Country"))
                            => grouped[i]["Change"] = flat[i]["Change"]
                     /\ grouped[i]["Change"] # flat[i]["Change"]
                            => GroupBoundary(flat, i)
                     /\ GroupBoundary(flat, i) =>
                            /\ flat[i]["Change"] =
                                   Minus(flat[i]["Rate_Unemployed"],
                                         flat[i - 1]["Rate_Unemployed"])
                            /\ IsNA(grouped[i]["Change"])]_vars

====
